---- MODULE Spec2Model ----
(***************************************************************************)
(* Model of forexpros-wss: the frame decoder of src/src/data.rs            *)
(* (Snapshot::from_str, the serde field rules of Snapshot and              *)
(* deserialize_u32_or_string) and the session of src/src/push.rs           *)
(* (Stream::new: connect, open acknowledgement, subscribe and UID sends,   *)
(* the detached heartbeat task and the inbound for_each loop).             *)
(*                                                                         *)
(* Text is modelled by TLA+ strings, byte for byte (all inputs are ASCII). *)
(* Unsigned integers keep their width: a u64 is four 16-bit limbs and a    *)
(* u32 two 16-bit limbs, least significant first.                          *)
(***************************************************************************)
EXTENDS Integers, Sequences, FiniteSets, TLC

----------------------------------------------------------------------------
(* str primitives used by the code: find, contains, replace, slicing.      *)

None == -1

Min(S) == CHOOSE x \in S : \A y \in S : x <= y

\* str::find: byte index (from 0) of the first match, or None.
find(s, pat) ==
    LET hits == {i \in 0..(Len(s) - Len(pat)) : SubSeq(s, i + 1, i + Len(pat)) = pat}
    IN  IF hits = {} THEN None ELSE Min(hits)

\* str::contains
contains(s, pat) == find(s, pat) # None

\* No match of pat in s lies across the cut after the first b bytes.
clean_cut(s, pat, b) ==
    \A m \in (b - Len(pat) + 1)..(b - 1) :
        m < 0 \/ m + Len(pat) > Len(s) \/ SubSeq(s, m + 1, m + Len(pat)) # pat

\* str::replace: every non-overlapping match, left to right.  A text is
\* evaluated by halves at a cut no match lies across, which gives what the
\* scan from the left gives.
RECURSIVE replace(_, _, _)
replace(s, from, to) ==
    LET i == find(s, from)
        cuts == {b \in (Len(s) \div 2)..(Len(s) - 1) : b >= 1 /\ clean_cut(s, from, b)}
        cut == Min(cuts)
    IN  IF i = None THEN s
        ELSE IF cuts # {}
        THEN replace(SubSeq(s, 1, cut), from, to) \o replace(SubSeq(s, cut + 1, Len(s)), from, to)
        ELSE SubSeq(s, 1, i) \o to \o replace(SubSeq(s, i + Len(from) + 1, Len(s)), from, to)

\* The byte at position i (from 1), "" past the end.
ch(s, i) == IF i >= 1 /\ i <= Len(s) THEN SubSeq(s, i, i) ELSE ""

----------------------------------------------------------------------------
(* Fixed-width unsigned integers as 16-bit limbs.                          *)

LimbBase == 65536

Digits == {"0", "1", "2", "3", "4", "5", "6", "7", "8", "9"}

DigitVal(c) ==
    CASE c = "0" -> 0 [] c = "1" -> 1 [] c = "2" -> 2 [] c = "3" -> 3 [] c = "4" -> 4
      [] c = "5" -> 5 [] c = "6" -> 6 [] c = "7" -> 7 [] c = "8" -> 8 [] c = "9" -> 9

\* A limb in front of the limbs of r.
prepend(d, r) == [v |-> <<d>> \o r.v, of |-> r.of]

\* x.v * mul + carry from limb k on, for x = [v, of]; of = TRUE when x.of
\* or when the result does not fit the limbs.
RECURSIVE MulAdd(_, _, _, _)
MulAdd(x, k, mul, carry) ==
    IF k > Len(x.v) THEN [v |-> <<>>, of |-> x.of \/ carry # 0]
    ELSE prepend((x.v[k] * mul + carry) % LimbBase,
                 MulAdd(x, k + 1, mul, (x.v[k] * mul + carry) \div LimbBase))

\* The value of at most four digits s[i..j], and the power of ten of their
\* count.
ChunkVal(s, i, j) ==
    IF j < i THEN 0
    ELSE IF j = i THEN DigitVal(ch(s, i))
    ELSE IF j = i + 1 THEN DigitVal(ch(s, i)) * 10 + DigitVal(ch(s, j))
    ELSE IF j = i + 2 THEN DigitVal(ch(s, i)) * 100 + DigitVal(ch(s, i + 1)) * 10 + DigitVal(ch(s, j))
    ELSE DigitVal(ch(s, i)) * 1000 + DigitVal(ch(s, i + 1)) * 100
            + DigitVal(ch(s, i + 2)) * 10 + DigitVal(ch(s, j))

ChunkPow(i, j) == IF j = i THEN 10 ELSE IF j = i + 1 THEN 100 ELSE IF j = i + 2 THEN 1000 ELSE 10000

\* The value of the digits s[i..j] in n limbs, with overflow flag; the
\* digits are taken four at a time, lo the first digit of the last chunk.
RECURSIVE DigitsToLimbs(_, _, _, _)
chunk_at(s, i, j, n, lo) ==
    MulAdd(DigitsToLimbs(s, i, lo - 1, n), 1, ChunkPow(lo, j), ChunkVal(s, lo, j))

DigitsToLimbs(s, i, j, n) ==
    IF j < i THEN [v |-> [k \in 1..n |-> 0], of |-> FALSE]
    ELSE chunk_at(s, i, j, n, IF j - 3 > i THEN j - 3 ELSE i)

----------------------------------------------------------------------------
(* serde_json: the JSON reader behind serde_json::from_str.  A value is    *)
(* [t, s, v]: t its JSON kind as serde sees it ("str", "u64", "i64",       *)
(* "f64", "null", "bool", "seq", "map"), s the string content or the       *)
(* number's text, v the limbs of a "u64".  The escapes \b and \uXXXX do    *)
(* not occur in the modelled inputs.                                       *)

Whitespace == {" ", "\n", "\t", "\r"}

Val(t, s, v) == [t |-> t, s |-> s, v |-> v]

NoVal == Val("none", "", <<>>)

Fail == [ok |-> FALSE, next |-> 0, val |-> NoVal]

Got(next, val) == [ok |-> TRUE, next |-> next, val |-> val]

\* The first position from i on whose byte is not in the set cs (past the
\* end if there is none).
run_stop(s, i, cs) ==
    CHOOSE j \in i..(Len(s) + 1) :
        /\ ch(s, j) \notin cs
        /\ \A k \in i..(j - 1) : ch(s, k) \in cs

\* The first position from i on whose byte is in the set cs (past the end
\* if there is none).
run_until(s, i, cs) ==
    CHOOSE j \in i..(Len(s) + 1) :
        /\ j = Len(s) + 1 \/ ch(s, j) \in cs
        /\ \A k \in i..(j - 1) : ch(s, k) \notin cs

skip_ws(s, i) == run_stop(s, i, Whitespace)

\* The last index of the run of digits that starts at i (i - 1 if none).
digit_run_end(s, i) == run_stop(s, i, Digits) - 1

\* What the escape \e stands for, "" for an escape the reader rejects.
unescape(e) ==
    IF e \in {"\"", "\\", "/"} THEN e
    ELSE IF e = "n" THEN "\n"
    ELSE IF e = "t" THEN "\t"
    ELSE IF e = "r" THEN "\r"
    ELSE IF e = "f" THEN "\f"
    ELSE ""

\* i is just past the opening quote, or past an escape; acc is the content
\* read so far.  The bytes up to j, the next quote, backslash or control
\* character, are taken at once.
RECURSIVE parse_str_tail(_, _, _)
parse_str_run(s, i, acc, j) ==
    IF ch(s, j) = "\"" THEN Got(j + 1, Val("str", acc \o SubSeq(s, i, j - 1), <<>>))
    ELSE IF ch(s, j) = "\\" /\ unescape(ch(s, j + 1)) # ""
    THEN parse_str_tail(s, j + 2, acc \o SubSeq(s, i, j - 1) \o unescape(ch(s, j + 1)))
    ELSE Fail

parse_str_tail(s, i, acc) ==
    parse_str_run(s, i, acc, run_until(s, i, {"\"", "\\", "\n", "\t", "\r", "\f"}))

\* 2^63 <= the magnitude held in four limbs (it does not fit an i64 when
\* it exceeds 2^63).
ExceedsI64(limbs) ==
    \/ limbs[4] > 32768
    \/ limbs[4] = 32768 /\ (limbs[1] # 0 \/ limbs[2] # 0 \/ limbs[3] # 0)

\* An integer without fraction or exponent, s[i..intEnd], of magnitude mag:
\* a u64, an i64 when negative, an f64 when it fits neither (or is -0).
parse_integer(s, i, intEnd, mag) ==
    IF mag.of THEN Got(intEnd + 1, Val("f64", SubSeq(s, i, intEnd), <<>>))
    ELSE IF ch(s, i) # "-" THEN Got(intEnd + 1, Val("u64", SubSeq(s, i, intEnd), mag.v))
    ELSE IF mag.v = <<0, 0, 0, 0>> \/ ExceedsI64(mag.v)
    THEN Got(intEnd + 1, Val("f64", SubSeq(s, i, intEnd), <<>>))
    ELSE Got(intEnd + 1, Val("i64", SubSeq(s, i, intEnd), <<>>))

\* The digits of an exponent are s[expStart..expEnd].
parse_exponent(s, i, expStart, expEnd) ==
    IF expEnd < expStart THEN Fail
    ELSE Got(expEnd + 1, Val("f64", SubSeq(s, i, expEnd), <<>>))

\* The integer part ends at intEnd and the fraction, if any, at fracEnd.
parse_decimal(s, i, p, intEnd, fracEnd) ==
    IF ch(s, intEnd + 1) = "." /\ fracEnd < intEnd + 2 THEN Fail
    ELSE IF ch(s, fracEnd + 1) \in {"e", "E"} THEN
        parse_exponent(s, i,
            IF ch(s, fracEnd + 2) \in {"+", "-"} THEN fracEnd + 3 ELSE fracEnd + 2,
            digit_run_end(s, IF ch(s, fracEnd + 2) \in {"+", "-"} THEN fracEnd + 3 ELSE fracEnd + 2))
    ELSE IF ch(s, intEnd + 1) = "." THEN Got(fracEnd + 1, Val("f64", SubSeq(s, i, fracEnd), <<>>))
    ELSE parse_integer(s, i, intEnd, DigitsToLimbs(s, p, intEnd, 4))

\* The digits of the integer part are s[p..intEnd].
parse_fraction(s, i, p, intEnd) ==
    parse_decimal(s, i, p, intEnd,
        IF ch(s, intEnd + 1) = "." THEN digit_run_end(s, intEnd + 2) ELSE intEnd)

\* The number starts at i and its first digit is due at p.
parse_digits(s, i, p) ==
    IF ch(s, p) \notin Digits THEN Fail
    ELSE IF ch(s, p) = "0" /\ ch(s, p + 1) \in Digits THEN Fail
    ELSE parse_fraction(s, i, p, IF ch(s, p) = "0" THEN p ELSE digit_run_end(s, p))

parse_num(s, i) == parse_digits(s, i, IF ch(s, i) = "-" THEN i + 1 ELSE i)

\* The bytes of s from position i on begin with pat.
starts_at(s, i, pat) == i + Len(pat) - 1 <= Len(s) /\ SubSeq(s, i, i + Len(pat) - 1) = pat

parse_lit(s, i) ==
    IF starts_at(s, i, "null") THEN Got(i + 4, Val("null", "", <<>>))
    ELSE IF starts_at(s, i, "true") THEN Got(i + 4, Val("bool", "true", <<>>))
    ELSE IF starts_at(s, i, "false") THEN Got(i + 5, Val("bool", "false", <<>>))
    ELSE Fail

RECURSIVE parse_value(_, _)
RECURSIVE parse_seq_tail(_, _)
RECURSIVE parse_map_tail(_, _)

\* i is at the first byte of a value.
parse_value(s, i) ==
    LET c == ch(s, i)
        j == skip_ws(s, i + 1)
    IN  IF c = "\"" THEN parse_str_tail(s, i + 1, "")
        ELSE IF c = "-" \/ c \in Digits THEN parse_num(s, i)
        ELSE IF c = "[" THEN
            IF ch(s, j) = "]" THEN Got(j + 1, Val("seq", "", <<>>)) ELSE parse_seq_tail(s, j)
        ELSE IF c = "{" THEN
            IF ch(s, j) = "}" THEN Got(j + 1, Val("map", "", <<>>)) ELSE parse_map_tail(s, j)
        ELSE parse_lit(s, i)

\* j is at the separator after an element of an array.
parse_seq_sep(s, j) ==
    IF ch(s, j) = "]" THEN Got(j + 1, Val("seq", "", <<>>))
    ELSE IF ch(s, j) = "," THEN parse_seq_tail(s, skip_ws(s, j + 1))
    ELSE Fail

\* e is the element read.
parse_seq_element(s, e) == IF ~e.ok THEN Fail ELSE parse_seq_sep(s, skip_ws(s, e.next))

\* i is at the first byte of an element of an array.
parse_seq_tail(s, i) == parse_seq_element(s, parse_value(s, i))

\* j is at the separator after a member of an object.
parse_map_sep(s, j) ==
    IF ch(s, j) = "}" THEN Got(j + 1, Val("map", "", <<>>))
    ELSE IF ch(s, j) = "," THEN parse_map_tail(s, skip_ws(s, j + 1))
    ELSE Fail

\* e is the value read for a member.
parse_map_value(s, e) == IF ~e.ok THEN Fail ELSE parse_map_sep(s, skip_ws(s, e.next))

\* c is the position due to hold the colon after a key.
parse_map_colon(s, c) ==
    IF ch(s, c) # ":" THEN Fail ELSE parse_map_value(s, parse_value(s, skip_ws(s, c + 1)))

\* k is the key read.
parse_map_key(s, k) == IF ~k.ok THEN Fail ELSE parse_map_colon(s, skip_ws(s, k.next))

\* i is at the first byte of a key of an object.
parse_map_tail(s, i) ==
    IF ch(s, i) # "\"" THEN Fail ELSE parse_map_key(s, parse_str_tail(s, i + 1, ""))

----------------------------------------------------------------------------
(* data.rs: Snapshot and its field rules.  An Option is <<>> (None) or     *)
(* <<x>> (Some(x)).  A field result is [ok, v, err].                       *)

FieldOk(v) == [ok |-> TRUE, v |-> v, err |-> ""]

FieldErr(e) == [ok |-> FALSE, v |-> <<>>, err |-> e]

\* fn default_zero() -> u32
default_zero == <<0, 0>>

\* u64 as u32: the two low limbs.
as_u32(limbs) == <<limbs[1], limbs[2]>>

\* str::parse::<u32>: an optional "+", then one or more digits, the value
\* at most u32::MAX.
parse_u32(sval) ==
    LET p == IF ch(sval, 1) = "+" THEN 2 ELSE 1
        n == DigitsToLimbs(sval, p, Len(sval), 2)
    IN  IF sval = "" THEN FieldErr("ParseIntError")
        ELSE IF p > Len(sval) THEN FieldErr("ParseIntError")
        ELSE IF digit_run_end(sval, p) # Len(sval) THEN FieldErr("ParseIntError")
        ELSE IF n.of THEN FieldErr("ParseIntError")
        ELSE FieldOk(n.v)

\* U32Visitor::visit_u64
visit_u64(limbs) == FieldOk(as_u32(limbs))

\* U32Visitor::visit_str
visit_str(sval) == IF sval = "" THEN FieldOk(default_zero) ELSE parse_u32(sval)

\* deserialize_any with U32Visitor: the other visit_* methods keep serde's
\* default, an invalid-type error.
deserialize_u32_or_string(val) ==
    IF val.t = "u64" THEN visit_u64(val.v)
    ELSE IF val.t = "str" THEN visit_str(val.s)
    ELSE FieldErr("InvalidType")

\* The decimal text of a number without a fraction's trailing zeros; the
\* f32 is identified by it (binary rounding is not modelled).
RECURSIVE strip_zeros(_)
strip_zeros(lex) ==
    LET n == Len(lex)
    IN  IF ch(lex, n) = "0" THEN strip_zeros(SubSeq(lex, 1, n - 1))
        ELSE IF ch(lex, n) = "." THEN SubSeq(lex, 1, n - 1)
        ELSE lex

f32_of(val) ==
    IF val.t = "f64" /\ contains(val.s, ".") /\ ~contains(val.s, "e") /\ ~contains(val.s, "E")
    THEN strip_zeros(val.s) ELSE val.s

StringFields == {"pid", "last", "bid", "ask", "high", "low", "last_close",
                 "pc", "pcp", "pc_col", "turnover", "time"}

FieldNames == StringFields \cup {"last_dir", "last_numeric", "turnover_numeric", "timestamp"}

\* The fields that neither are an Option nor carry #[serde(default)].
RequiredFields == FieldNames \ {"last_dir", "last_close", "turnover", "turnover_numeric"}

\* The derived Deserialize, one field: the value read for key.
visit_field(key, val) ==
    IF key \in StringFields THEN
        IF val.t = "str" THEN FieldOk(val.s) ELSE FieldErr("InvalidType")
    ELSE IF key = "last_dir" THEN
        IF val.t = "null" THEN FieldOk(<<>>)
        ELSE IF val.t = "str" THEN FieldOk(<<val.s>>)
        ELSE FieldErr("InvalidType")
    ELSE IF key = "last_numeric" THEN
        IF val.t \in {"u64", "i64", "f64"} THEN FieldOk(f32_of(val)) ELSE FieldErr("InvalidType")
    ELSE IF key = "timestamp" THEN
        IF val.t = "u64" THEN FieldOk(val.v) ELSE FieldErr("InvalidType")
    ELSE deserialize_u32_or_string(val)

\* A decode result: [ok, snap, err].
NoSnapshot == <<>>

DecodeErr(e) == [ok |-> FALSE, snap |-> NoSnapshot, err |-> e]

DecodeOk(snap) == [ok |-> TRUE, snap |-> snap, err |-> ""]

\* The fields seen so far: <<>> while unseen, <<v>> once read.
NoFields == [f \in FieldNames |-> <<>>]

\* The end of the object: defaults for the absent fields, an error for an
\* absent required one.
finish_struct(acc) ==
    IF \E f \in RequiredFields : acc[f] = <<>> THEN DecodeErr("MissingField")
    ELSE DecodeOk([f \in FieldNames |->
            IF acc[f] # <<>> THEN acc[f][1]
            ELSE IF f = "last_dir" THEN <<>>
            ELSE IF f = "turnover_numeric" THEN default_zero
            ELSE ""])

\* The derived visit_map, streaming.  Only trailing whitespace may follow
\* the closing brace (Deserializer::end); fin is the struct built.
RECURSIVE visit_map(_, _, _)
visit_end(s, j, fin) ==
    IF skip_ws(s, j + 1) <= Len(s) /\ fin.ok THEN DecodeErr("Syntax") ELSE fin

\* j is at the separator after a member; acc holds the fields read.
visit_sep(s, j, acc) ==
    IF ch(s, j) = "," THEN visit_map(s, skip_ws(s, j + 1), acc)
    ELSE IF ch(s, j) = "}" THEN visit_end(s, j, finish_struct(acc))
    ELSE DecodeErr("Syntax")

\* r is the field read for key (an unknown key is ignored).
visit_result(s, j, acc, key, r) ==
    IF key \notin FieldNames THEN visit_sep(s, j, acc)
    ELSE IF ~r.ok THEN DecodeErr(r.err)
    ELSE visit_sep(s, j, [acc EXCEPT ![key] = <<r.v>>])

\* e is the value read for key.
visit_value(s, acc, key, e) ==
    IF ~e.ok THEN DecodeErr("Syntax")
    ELSE visit_result(s, skip_ws(s, e.next), acc, key, visit_field(key, e.val))

\* c is the position due to hold the colon after key; a field seen twice
\* is an error before its value is read.
visit_colon(s, acc, key, c) ==
    IF ch(s, c) # ":" THEN DecodeErr("Syntax")
    ELSE IF key \in FieldNames /\ acc[key] # <<>> THEN DecodeErr("DuplicateField")
    ELSE visit_value(s, acc, key, parse_value(s, skip_ws(s, c + 1)))

\* k is the key read.
visit_key(s, acc, k) ==
    IF ~k.ok THEN DecodeErr("Syntax") ELSE visit_colon(s, acc, k.val.s, skip_ws(s, k.next))

\* i is at the first byte of a key.
visit_map(s, i, acc) ==
    IF ch(s, i) # "\"" THEN DecodeErr("Syntax")
    ELSE visit_key(s, acc, parse_str_tail(s, i + 1, ""))

\* j is past the opening brace and the whitespace after it.
visit_struct(s, j) ==
    IF ch(s, j) = "}" THEN visit_end(s, j, finish_struct(NoFields))
    ELSE visit_map(s, j, NoFields)

\* serde_json::from_str::<Snapshot>.  Every modelled text that is a JSON
\* value is an object (Snapshot::from_str slices from an opening brace).
json_from_str(s) ==
    IF ch(s, skip_ws(s, 1)) # "{" THEN DecodeErr("Syntax")
    ELSE visit_struct(s, skip_ws(s, skip_ws(s, 1) + 1))

\* Snapshot::from_str: [panic, snap], panic = "" when it returns.
Returned(snap) == [panic |-> "", snap |-> snap]

Panicked(msg) == [panic |-> msg, snap |-> NoSnapshot]

\* serde_json::from_str(..).unwrap()
unwrap(parsed) == IF ~parsed.ok THEN Panicked(parsed.err) ELSE Returned(parsed.snap)

from_str(src) ==
    LET idx_start == find(src, "::{")
        idx_end == find(src, "}")
    IN  IF idx_start = None THEN Panicked("Expect the opening brace")
        ELSE IF idx_end = None THEN Panicked("Expect the closing brace")
        ELSE IF idx_start + 2 > idx_end + 1 THEN Panicked("slice index")
        ELSE unwrap(json_from_str(replace(SubSeq(src, idx_start + 3, idx_end + 1), "\\\\\\", "")))

----------------------------------------------------------------------------
(* The wire.  Outbound frames are the texts push.rs formats; inbound       *)
(* snapshot frames have the shape of the example in data.rs: every quote   *)
(* of the inner object is preceded by three backslashes.                   *)

Esc == "\\\\\\\""

Quote == "\""

\* "key":"value", and "key":value, with q the text that stands for a quote.
StrMember(q, k, v) == q \o k \o q \o ":" \o q \o v \o q \o ","

RawMember(q, k, v) == q \o k \o q \o ":" \o v \o ","

\* A snapshot object; opt is the text of the optional members before
\* turnover_numeric and tn the text of the turnover_numeric member ("" when
\* the key is absent).
Object(q, pid, opt, tn) ==
    "{" \o StrMember(q, "pid", pid) \o StrMember(q, "last_dir", "redBg")
        \o RawMember(q, "last_numeric", "18951.2") \o StrMember(q, "last", "18,951.2")
        \o StrMember(q, "bid", "1.0") \o StrMember(q, "ask", "2.0")
        \o StrMember(q, "high", "3.0") \o StrMember(q, "low", "0.5")
        \o StrMember(q, "pc", "-1.5") \o StrMember(q, "pcp", "-1.23%")
        \o StrMember(q, "pc_col", "redFont") \o opt \o tn
        \o StrMember(q, "time", "19:21:50")
        \o q \o "timestamp" \o q \o ":1606850510}"

InnerObject(pid, tn) == Object(Esc, pid, "", tn)

Envelope(pid, inner) == "a[\"{\\\"message\\\":\\\"pid-" \o pid \o "::" \o inner \o "\\\"}\"]"

GoodFrame(pid) == Envelope(pid, InnerObject(pid, RawMember(Esc, "turnover_numeric", "21503")))

BadNumberFrame(pid) == Envelope(pid, InnerObject(pid, StrMember(Esc, "turnover_numeric", "olia")))

\* A snapshot frame cut before any closing brace.
TruncatedFrame(pid) ==
    "a[\"{\\\"message\\\":\\\"pid-" \o pid \o "::{" \o StrMember(Esc, "pid", pid)

OpenAck == "o"

Chatter == "h"

PairIds == {"8", "95"}

\* What the inbound half yields: a text message, a message whose bytes are
\* not UTF-8, a read error, or the end of the stream.
Text(t) == [kind |-> "Text", text |-> t]

NotUtf8 == [kind |-> "Binary", text |-> ""]

ReadErr == [kind |-> "Err", text |-> ""]

EndOfInput == [kind |-> "End", text |-> ""]

InboundItems ==
    {Text(OpenAck), Text(Chatter), Text(GoodFrame("8")), Text(GoodFrame("95")),
     Text(BadNumberFrame("8")), Text(BadNumberFrame("95")), Text(TruncatedFrame("8")),
     NotUtf8, ReadErr, EndOfInput}

\* format!("[\"{{\\\"_event\\\":\\\"bulk-subscribe\\\", ... pid-{}:\\\"}}\"]", pair_id)
SubscribeFrame(pid) ==
    "[\"{\\\"_event\\\":\\\"bulk-subscribe\\\",\\\"tzID\\\":\\\"8\\\",\\\"message\\\":\\\"pid-"
        \o pid \o ":\\\"}\"]"

UidFrame == "[\"{\\\"_event\\\":\\\"UID\\\",\\\"UID\\\":0}\"]"

HeartbeatFrame == "[\"{\\\"_event\\\":\\\"heartbeat\\\",\\\"data\\\":\\\"h\\\"}\"]"

\* Snapshot::from_str on each inbound text, evaluated once.
FromStrOf == [t \in {i.text : i \in InboundItems} |-> from_str(t)]

\* format!("pid-{}::{{", pair_id)
KeyOf(pid) == "pid-" \o pid \o "::{"

----------------------------------------------------------------------------
(* Bounds of the exploration.                                              *)

MaxFrames == 3

MaxHeartbeats == 2

----------------------------------------------------------------------------
(* Stream::new: the spawned session task, the detached heartbeat task and  *)
(* what the owner of the Stream can do with its fields.                    *)

VARIABLES
    pair_id,     \* the instrument id given to Stream::new
    pc,          \* where the session task is: "connect", "open", "subscribe", "uid", "stream", "done"
    result,      \* what awaiting stream_handle_spawn yields
    hb,          \* the heartbeat task: "none", "ready", "sleeping", "panicked", "dropped"
    sent,        \* the frames written to the connection, in order
    inbound,     \* what the inbound half has yielded, in order
    calls,       \* the Snapshots the handler was called with, in order
    peer_closed, \* the inbound half has ended
    aborted,     \* stream_handle_spawn.abort() was called
    rt_dropped,  \* the Stream (and its Runtime) was dropped
    dec_mode,    \* runs of a function alone: "json" (serde_json::from_str), "wire"
                 \* (Snapshot::from_str), "url" (generate_stream_url), "off"
    dec_case,    \* such runs: the draw the input was built from
    dec_in,      \* such runs: the input text
    dec_out,     \* such runs: <<>> before the run, <<result>> after it
    streams,     \* two Streams side by side: for each, the fields above that are the
                 \* Stream's own, and conn, the connection its connect_async opened
    wire         \* two Streams side by side: for each connection, what was written
                 \* to it and what it has yielded

vars == <<pair_id, pc, result, hb, sent, inbound, calls, peer_closed, aborted, rt_dropped,
          dec_mode, dec_case, dec_in, dec_out, streams, wire>>

session_vars == <<pair_id, pc, result, hb, sent, inbound, calls, peer_closed, aborted,
                  rt_dropped>>

dec_vars == <<dec_mode, dec_case, dec_in, dec_out>>

pair_vars == <<streams, wire>>

Pending == [kind |-> "Pending", at |-> "", msg |-> ""]

\* Ok(Ok(())), Ok(Err(())), Err(JoinError) of a panic, Err(JoinError) of a cancellation.
OkOk_as_err == [kind |-> "Err", at |-> "stream", msg |-> "EOD"]

OkOk == [kind |-> "Ok", at |-> "stream", msg |-> "EOD"]

OkErr(at) == [kind |-> "Err", at |-> at, msg |-> ""]

Panic(at, msg) == [kind |-> "Panic", at |-> at, msg |-> msg]

Cancelled(at) == [kind |-> "Cancelled", at |-> at, msg |-> ""]

\* Two calls of Stream::new, for different instruments.
Sessions == {1, 2}

PairIdOf == <<"8", "95">>

\* A Stream as Stream::new returns it: its own Runtime, its session task
\* spawned and not yet polled, no connection yet.
NewStream(pid) ==
    [pair_id |-> pid, pc |-> "connect", result |-> Pending, hb |-> "none", calls |-> <<>>,
     aborted |-> FALSE, rt_dropped |-> FALSE, conn |-> 0]

\* A connection nothing went through yet.
NewWire == [sent |-> <<>>, inbound |-> <<>>, peer_closed |-> FALSE]

SessionInit ==
    /\ streams = [s \in Sessions |-> NewStream(PairIdOf[s])]
    /\ wire = [c \in Sessions |-> NewWire]
    /\ pair_id \in PairIds
    /\ pc = "connect"
    /\ result = Pending
    /\ hb = "none"
    /\ sent = <<>>
    /\ inbound = <<>>
    /\ calls = <<>>
    /\ peer_closed = FALSE
    /\ aborted = FALSE
    /\ rt_dropped = FALSE

Init ==
    /\ SessionInit
    /\ dec_mode = "off"
    /\ dec_case = <<>>
    /\ dec_in = ""
    /\ dec_out = <<>>

\* The session task ends with outcome r.
Finish(r) ==
    /\ pc' = "done"
    /\ result' = r

\* connect_async(&url).then(.. stream_response.expect(..))
Connect ==
    /\ pc = "connect"
    /\ \E ok \in BOOLEAN :
        IF ok THEN pc' = "open" /\ UNCHANGED result
        ELSE Finish(Panic("connect", "Failed to get tokio_tungstenite::connect_async(..)"))
    /\ UNCHANGED <<pair_id, hb, sent, inbound, calls, peer_closed, aborted, rt_dropped>>
    /\ UNCHANGED <<dec_vars, pair_vars>>

\* Any text is taken for the open acknowledgement.
first_item_lenient(item) ==
    IF item.kind = "End" THEN <<Panic("open", "unwrap on None")>>
    ELSE IF item.kind = "Err" THEN <<Panic("open", "unwrap on Err")>>
    ELSE IF item.kind = "Binary" THEN <<Panic("open", "to_text")>>
    ELSE <<>>

\* stream.next().await.unwrap().unwrap().to_text().unwrap() == "o":
\* <<>> when the session goes on, <<r>> when it ends with r.
first_item(item) ==
    IF item.kind = "End" THEN <<Panic("open", "unwrap on None")>>
    ELSE IF item.kind = "Err" THEN <<Panic("open", "unwrap on Err")>>
    ELSE IF item.kind = "Binary" THEN <<Panic("open", "to_text")>>
    ELSE IF item.text = OpenAck THEN <<>>
    ELSE <<OkErr("open")>>

AwaitOpen ==
    /\ pc = "open"
    /\ \E item \in InboundItems :
        \E r \in {first_item(item)} :
            /\ inbound' = Append(inbound, item)
            /\ peer_closed' = (item.kind = "End")
            /\ IF r = <<>> THEN pc' = "subscribe" /\ UNCHANGED result
               ELSE Finish(r[1])
    /\ UNCHANGED <<pair_id, hb, sent, calls, aborted, rt_dropped>>
    /\ UNCHANGED <<dec_vars, pair_vars>>

\* The heartbeat task is spawned once the subscribe frame is out.
SendSubscribe_spawning ==
    /\ pc = "subscribe"
    /\ \E ok \in BOOLEAN :
        IF ok THEN /\ sent' = Append(sent, SubscribeFrame(pair_id))
                   /\ pc' = "uid"
                   /\ hb' = "ready"
                   /\ UNCHANGED result
        ELSE /\ Finish(Panic("subscribe", "Expect tx.send(bulk-subscribe, tzID, pid) to server"))
             /\ UNCHANGED <<sent, hb>>
    /\ UNCHANGED <<pair_id, inbound, calls, peer_closed, aborted, rt_dropped>>
    /\ UNCHANGED <<dec_vars, pair_vars>>

\* tx.send(bulk-subscribe).await.expect(..)
SendSubscribe ==
    /\ pc = "subscribe"
    /\ \E ok \in BOOLEAN :
        IF ok THEN /\ sent' = Append(sent, SubscribeFrame(pair_id))
                   /\ pc' = "uid"
                   /\ UNCHANGED result
        ELSE /\ Finish(Panic("subscribe", "Expect tx.send(bulk-subscribe, tzID, pid) to server"))
             /\ UNCHANGED sent
    /\ UNCHANGED <<pair_id, hb, inbound, calls, peer_closed, aborted, rt_dropped>>
    /\ UNCHANGED <<dec_vars, pair_vars>>

\* The outcome of the send is not looked at.
SendUid_unchecked ==
    /\ pc = "uid"
    /\ \E ok \in BOOLEAN :
        IF ok THEN sent' = Append(sent, UidFrame) ELSE UNCHANGED sent
    /\ hb' = "ready"
    /\ pc' = "stream"
    /\ UNCHANGED result
    /\ UNCHANGED <<pair_id, inbound, calls, peer_closed, aborted, rt_dropped>>
    /\ UNCHANGED <<dec_vars, pair_vars>>

\* tx.send(UID).await.expect(..); then rt_heartbeat.spawn(..) and the first
\* poll of rx.for_each, with no await in between.
SendUid ==
    /\ pc = "uid"
    /\ \E ok \in BOOLEAN :
        IF ok THEN /\ sent' = Append(sent, UidFrame)
                   /\ hb' = "ready"
                   /\ pc' = "stream"
                   /\ UNCHANGED result
        ELSE /\ Finish(Panic("uid", "Expect tx.send(UID=0) to server"))
             /\ UNCHANGED <<sent, hb>>
    /\ UNCHANGED <<pair_id, inbound, calls, peer_closed, aborted, rt_dropped>>
    /\ UNCHANGED <<dec_vars, pair_vars>>

\* One turn of the heartbeat loop up to its sleep:
\* tx.send(heartbeat).await.expect(..).  A send on a connection the peer
\* has closed fails.
HeartbeatSend ==
    /\ hb = "ready"
    /\ Len(sent) < 2 + MaxHeartbeats
    /\ \E ok \in (IF peer_closed THEN {FALSE} ELSE BOOLEAN) :
        IF ok THEN sent' = Append(sent, HeartbeatFrame) /\ hb' = "sleeping"
        ELSE hb' = "panicked" /\ UNCHANGED sent
    /\ UNCHANGED <<pair_id, pc, result, inbound, calls, peer_closed, aborted, rt_dropped>>
    /\ UNCHANGED <<dec_vars, pair_vars>>

\* The heartbeat task ends after its first sleep.
HeartbeatWake_stopping ==
    /\ hb = "sleeping"
    /\ hb' = "none"
    /\ UNCHANGED <<pair_id, pc, result, sent, inbound, calls, peer_closed, aborted, rt_dropped>>
    /\ UNCHANGED <<dec_vars, pair_vars>>

\* time::sleep(Duration::from_millis(3200)).await is over.
HeartbeatWake ==
    /\ hb = "sleeping"
    /\ hb' = "ready"
    /\ UNCHANGED <<pair_id, pc, result, sent, inbound, calls, peer_closed, aborted, rt_dropped>>
    /\ UNCHANGED <<dec_vars, pair_vars>>

\* handler(Snapshot::from_str(msg)), d the outcome of from_str: a panic, or
\* the handler called with the Snapshot.
handler(d) ==
    IF d.panic # "" THEN [panic |-> d.panic, called |-> <<>>]
    ELSE [panic |-> "", called |-> <<d.snap>>]

\* The handler is called for every message, whatever its key.
Dispatch_any_key(msg, key) == handler(FromStrOf[msg])

\* A message that does not decode is skipped.
Dispatch_skipping(msg, key) ==
    [panic |-> "",
     called |-> IF contains(msg, key) /\ FromStrOf[msg].panic = ""
                THEN <<FromStrOf[msg].snap>> ELSE <<>>]

\* The decoder runs before the key is looked for.
Dispatch_decoding(msg, key) ==
    IF FromStrOf[msg].panic # "" THEN [panic |-> FromStrOf[msg].panic, called |-> <<>>]
    ELSE IF contains(msg, key) THEN [panic |-> "", called |-> <<FromStrOf[msg].snap>>]
    ELSE [panic |-> "", called |-> <<>>]

\* The closure of rx.for_each on one text message: the outcome of
\* handler(Snapshot::from_str(msg)) behind msg.contains(key).
Dispatch(msg, key) ==
    IF contains(msg, key) THEN handler(FromStrOf[msg])
    ELSE [panic |-> "", called |-> <<>>]

\* The session task after the closure ran on a text message: a panic of
\* the closure is the task's panic.
after_closure(d) ==
    IF d.panic # "" THEN [end |-> <<Panic("stream", d.panic)>>, called |-> <<>>]
    ELSE [end |-> <<>>, called |-> d.called]

\* A read error is passed over and the loop goes on.
for_each_item_lenient(item, key) ==
    IF item.kind = "End" THEN [end |-> <<OkOk>>, called |-> <<>>]
    ELSE IF item.kind = "Err" THEN [end |-> <<>>, called |-> <<>>]
    ELSE IF item.kind = "Binary" THEN [end |-> <<Panic("stream", "to_text")>>, called |-> <<>>]
    ELSE after_closure(Dispatch(item.text, key))

\* One item of rx.for_each(|msg| ..), or its end followed by
\* println!("EOD"); Ok(()): [end, called], end = <<>> when the loop goes on
\* and <<r>> when the session task ends with r.
for_each_item(item, key) ==
    IF item.kind = "End" THEN [end |-> <<OkOk>>, called |-> <<>>]
    ELSE IF item.kind = "Err" THEN [end |-> <<Panic("stream", "msg.unwrap")>>, called |-> <<>>]
    ELSE IF item.kind = "Binary" THEN [end |-> <<Panic("stream", "to_text")>>, called |-> <<>>]
    ELSE after_closure(Dispatch(item.text, key))

Recv ==
    /\ pc = "stream"
    /\ Len(inbound) < 1 + MaxFrames
    /\ \E item \in InboundItems :
        \E r \in {for_each_item(item, KeyOf(pair_id))} :
            /\ inbound' = Append(inbound, item)
            /\ peer_closed' = (item.kind = "End")
            /\ calls' = calls \o r.called
            /\ IF r.end = <<>> THEN UNCHANGED <<pc, result>>
               ELSE Finish(r.end[1])
    /\ UNCHANGED <<pair_id, hb, sent, aborted, rt_dropped>>
    /\ UNCHANGED <<dec_vars, pair_vars>>

\* The owner calls stream_handle_spawn.abort(): the session task is
\* cancelled at its await; the heartbeat task is another task, whose
\* JoinHandle was dropped at the spawn.
Abort ==
    /\ ~aborted /\ ~rt_dropped
    /\ aborted' = TRUE
    /\ IF pc # "done" THEN Finish(Cancelled(pc)) ELSE UNCHANGED <<pc, result>>
    /\ UNCHANGED <<pair_id, hb, sent, inbound, calls, peer_closed, rt_dropped>>
    /\ UNCHANGED <<dec_vars, pair_vars>>

\* The owner drops the Stream: the Runtime shuts down and every task
\* spawned on it is dropped at its await.
DropStream ==
    /\ ~rt_dropped
    /\ rt_dropped' = TRUE
    /\ IF pc # "done" THEN Finish(Cancelled(pc)) ELSE UNCHANGED <<pc, result>>
    /\ hb' = IF hb \in {"ready", "sleeping"} THEN "dropped" ELSE hb
    /\ UNCHANGED <<pair_id, sent, inbound, calls, peer_closed, aborted>>
    /\ UNCHANGED <<dec_vars, pair_vars>>

Next ==
    \/ Connect
    \/ AwaitOpen
    \/ SendSubscribe
    \/ SendUid
    \/ HeartbeatSend
    \/ HeartbeatWake
    \/ Recv
    \/ Abort
    \/ DropStream

Spec == Init /\ [][Next]_vars

\* The runtime polls the heartbeat task whenever it can run: when its send
\* is due and when its sleep is over.
SpecLive == Init /\ [][Next]_vars /\ WF_vars(HeartbeatSend) /\ WF_vars(HeartbeatWake)

----------------------------------------------------------------------------
(* Two Streams side by side.  Each Stream::new builds its own Runtime and  *)
(* its session task calls connect_async itself, so each Stream has its own *)
(* tasks and its own connection; the steps are those above, taken by       *)
(* either Stream in any order.                                             *)

PairMaxFrames == 1

PairMaxHeartbeats == 1

PairItems ==
    {Text(OpenAck), Text(GoodFrame("8")), Text(GoodFrame("95")), Text(BadNumberFrame("8")),
     EndOfInput}

\* The connections some Stream holds.
Held == {streams[s].conn : s \in Sessions} \ {0}

\* The session task of Stream s ends with outcome r.
PairFinish(s, r) == [streams EXCEPT ![s].pc = "done", ![s].result = r]

\* Every Stream is given the one connection 1.
PairConnect_shared(s) ==
    /\ streams[s].pc = "connect"
    /\ \E ok \in BOOLEAN :
        IF ok THEN streams' = [streams EXCEPT ![s].pc = "open", ![s].conn = 1]
        ELSE streams' = PairFinish(s, Panic("connect", "Failed to get tokio_tungstenite::connect_async(..)"))
    /\ UNCHANGED wire
    /\ UNCHANGED <<session_vars, dec_vars>>

\* connect_async(&url) in the session task of Stream s: a connection of
\* its own, one no other Stream holds.
PairConnect(s) ==
    /\ streams[s].pc = "connect"
    /\ \E ok \in BOOLEAN :
        IF ok THEN \E c \in Sessions \ Held :
                       /\ \A d \in Sessions \ Held : c <= d
                       /\ streams' = [streams EXCEPT ![s].pc = "open", ![s].conn = c]
        ELSE streams' = PairFinish(s, Panic("connect", "Failed to get tokio_tungstenite::connect_async(..)"))
    /\ UNCHANGED wire
    /\ UNCHANGED <<session_vars, dec_vars>>

\* The connection of Stream s yields item.
PairYield(s, item) ==
    [wire EXCEPT ![streams[s].conn].inbound = Append(@, item),
                 ![streams[s].conn].peer_closed = (item.kind = "End")]

\* Stream s writes frame to its connection.
PairWrite(s, frame) == [wire EXCEPT ![streams[s].conn].sent = Append(@, frame)]

PairAwaitOpen(s) ==
    /\ streams[s].pc = "open"
    /\ \E item \in PairItems :
        \E r \in {first_item(item)} :
            /\ wire' = PairYield(s, item)
            /\ IF r = <<>> THEN streams' = [streams EXCEPT ![s].pc = "subscribe"]
               ELSE streams' = PairFinish(s, r[1])
    /\ UNCHANGED <<session_vars, dec_vars>>

PairSendSubscribe(s) ==
    /\ streams[s].pc = "subscribe"
    /\ \E ok \in BOOLEAN :
        IF ok THEN /\ wire' = PairWrite(s, SubscribeFrame(streams[s].pair_id))
                   /\ streams' = [streams EXCEPT ![s].pc = "uid"]
        ELSE /\ streams' = PairFinish(s, Panic("subscribe", "Expect tx.send(bulk-subscribe, tzID, pid) to server"))
             /\ UNCHANGED wire
    /\ UNCHANGED <<session_vars, dec_vars>>

PairSendUid(s) ==
    /\ streams[s].pc = "uid"
    /\ \E ok \in BOOLEAN :
        IF ok THEN /\ wire' = PairWrite(s, UidFrame)
                   /\ streams' = [streams EXCEPT ![s].pc = "stream", ![s].hb = "ready"]
        ELSE /\ streams' = PairFinish(s, Panic("uid", "Expect tx.send(UID=0) to server"))
             /\ UNCHANGED wire
    /\ UNCHANGED <<session_vars, dec_vars>>

PairHeartbeatSend(s) ==
    /\ streams[s].hb = "ready"
    /\ Len(wire[streams[s].conn].sent) < 2 + PairMaxHeartbeats
    /\ \E ok \in (IF wire[streams[s].conn].peer_closed THEN {FALSE} ELSE BOOLEAN) :
        IF ok THEN /\ wire' = PairWrite(s, HeartbeatFrame)
                   /\ streams' = [streams EXCEPT ![s].hb = "sleeping"]
        ELSE /\ streams' = [streams EXCEPT ![s].hb = "panicked"]
             /\ UNCHANGED wire
    /\ UNCHANGED <<session_vars, dec_vars>>

PairHeartbeatWake(s) ==
    /\ streams[s].hb = "sleeping"
    /\ streams' = [streams EXCEPT ![s].hb = "ready"]
    /\ UNCHANGED wire
    /\ UNCHANGED <<session_vars, dec_vars>>

PairRecv(s) ==
    /\ streams[s].pc = "stream"
    /\ Len(wire[streams[s].conn].inbound) < 1 + PairMaxFrames
    /\ \E item \in PairItems :
        \E r \in {for_each_item(item, KeyOf(streams[s].pair_id))} :
            /\ wire' = PairYield(s, item)
            /\ IF r.end = <<>> THEN streams' = [streams EXCEPT ![s].calls = @ \o r.called]
               ELSE streams' = [streams EXCEPT ![s].calls = @ \o r.called,
                                               ![s].pc = "done", ![s].result = r.end[1]]
    /\ UNCHANGED <<session_vars, dec_vars>>

\* streams[s].stream_handle_spawn.abort()
PairAbort(s) ==
    /\ ~streams[s].aborted /\ ~streams[s].rt_dropped
    /\ IF streams[s].pc # "done"
       THEN streams' = [streams EXCEPT ![s].aborted = TRUE, ![s].pc = "done",
                                       ![s].result = Cancelled(streams[s].pc)]
       ELSE streams' = [streams EXCEPT ![s].aborted = TRUE]
    /\ UNCHANGED wire
    /\ UNCHANGED <<session_vars, dec_vars>>

\* Stream s is dropped, and with it the Runtime it owns.
PairDropStream(s) ==
    /\ ~streams[s].rt_dropped
    /\ IF streams[s].pc # "done"
       THEN streams' = [streams EXCEPT ![s].rt_dropped = TRUE, ![s].pc = "done",
                                       ![s].result = Cancelled(streams[s].pc),
                                       ![s].hb = IF @ \in {"ready", "sleeping"} THEN "dropped" ELSE @]
       ELSE streams' = [streams EXCEPT ![s].rt_dropped = TRUE,
                                       ![s].hb = IF @ \in {"ready", "sleeping"} THEN "dropped" ELSE @]
    /\ UNCHANGED wire
    /\ UNCHANGED <<session_vars, dec_vars>>

PairNext ==
    \E s \in Sessions :
        \/ PairConnect(s)
        \/ PairAwaitOpen(s)
        \/ PairSendSubscribe(s)
        \/ PairSendUid(s)
        \/ PairHeartbeatSend(s)
        \/ PairHeartbeatWake(s)
        \/ PairRecv(s)
        \/ PairAbort(s)
        \/ PairDropStream(s)

PairInit ==
    /\ Init
    /\ pair_id = "8"

SpecPair == PairInit /\ [][PairNext]_vars

----------------------------------------------------------------------------
(* Runs of the decoder alone: serde_json::from_str::<Snapshot> on a JSON   *)
(* text (as the tests of data.rs call it) and Snapshot::from_str on the    *)
(* same object inside the wire envelope.                                   *)

\* The turnover_numeric member of an input: kind "int" (an unsigned JSON
\* integer), "digits" (a JSON string of digits), "empty" (the JSON string
\* ""), "nondigits" (another JSON string), "absent", "other" (another JSON
\* value).  n is the number the digits denote, in four limbs.
Tn(kind, lex, n) == [kind |-> kind, lex |-> lex, n |-> n]

TurnoverCases ==
    {Tn("absent", "", <<>>),
     Tn("int", "0", <<0, 0, 0, 0>>),
     Tn("int", "21503", <<21503, 0, 0, 0>>),
     Tn("int", "4294967295", <<65535, 65535, 0, 0>>),
     Tn("int", "4294967296", <<0, 0, 1, 0>>),
     Tn("int", "4294988799", <<21503, 0, 1, 0>>),
     Tn("int", "18446744073709551615", <<65535, 65535, 65535, 65535>>),
     Tn("other", "18446744073709551616", <<>>),
     Tn("other", "-1", <<>>),
     Tn("other", "1.5", <<>>),
     Tn("other", "null", <<>>),
     Tn("other", "true", <<>>),
     Tn("digits", "0", <<0, 0, 0, 0>>),
     Tn("digits", "21503", <<21503, 0, 0, 0>>),
     Tn("digits", "007", <<7, 0, 0, 0>>),
     Tn("digits", "4294967295", <<65535, 65535, 0, 0>>),
     Tn("digits", "4294967296", <<0, 0, 1, 0>>),
     Tn("empty", "", <<>>),
     Tn("nondigits", "olia", <<>>),
     Tn("nondigits", "12a", <<>>),
     Tn("nondigits", " 5", <<>>),
     Tn("nondigits", "-5", <<>>),
     Tn("nondigits", "+5", <<>>),
     Tn("nondigits", "+", <<>>)}

\* The text of the turnover_numeric member of a case.
TnMember(q, c) ==
    IF c.kind = "absent" THEN ""
    ELSE IF c.kind \in {"int", "other"} THEN RawMember(q, "turnover_numeric", c.lex)
    ELSE StrMember(q, "turnover_numeric", c.lex)

\* The optional members last_close and turnover: none, the first, both.
OptCases == {0, 1, 2}

OptMembers(q, o) ==
    IF o = 0 THEN ""
    ELSE IF o = 1 THEN StrMember(q, "last_close", "19,188.0")
    ELSE StrMember(q, "last_close", "19,188.0") \o StrMember(q, "turnover", "21.50K")

DecodeInput(mode, c) ==
    IF mode = "json" THEN Object(Quote, "8", OptMembers(Quote, c.opt), TnMember(Quote, c.tn))
    ELSE Envelope("8", Object(Esc, "8", OptMembers(Esc, c.opt), TnMember(Esc, c.tn)))

DecodeInit ==
    /\ SessionInit
    /\ pair_id = "8"
    /\ dec_mode \in {"json", "wire"}
    /\ dec_case \in [tn : TurnoverCases, opt : OptCases]
    /\ dec_in = DecodeInput(dec_mode, dec_case)
    /\ dec_out = <<>>

\* let snapshot: Snapshot = serde_json::from_str(src)
RunJson ==
    /\ dec_mode = "json"
    /\ dec_out = <<>>
    /\ dec_out' = <<json_from_str(dec_in)>>
    /\ UNCHANGED <<dec_mode, dec_case, dec_in>>
    /\ UNCHANGED <<session_vars, pair_vars>>

\* let snapshot = Snapshot::from_str(src)
RunWire ==
    /\ dec_mode = "wire"
    /\ dec_out = <<>>
    /\ dec_out' = <<from_str(dec_in)>>
    /\ UNCHANGED <<dec_mode, dec_case, dec_in>>
    /\ UNCHANGED <<session_vars, pair_vars>>

DecodeNext == RunJson \/ RunWire

SpecDecode == DecodeInit /\ [][DecodeNext]_vars

----------------------------------------------------------------------------
(* Runs of Snapshot::from_str on raw texts built around a known Snapshot:  *)
(* the Snapshot as serde_json writes it (Snapshot derives Serialize), each *)
(* quote preceded by three backslashes, inside the envelope of the source  *)
(* example, and malformed variants of that text.                           *)

IsZero(v) == \A k \in 1..Len(v) : v[k] = 0

\* A limb on top of the limbs of a quotient.
put_limb(d, rest) == [q |-> rest.q \o <<d>>, r |-> rest.r]

\* The limbs v[1..k] with rem carried in from above, divided by ten:
\* quotient limbs and remainder.
RECURSIVE DivTen(_, _, _)
DivTen(v, k, rem) ==
    IF k = 0 THEN [q |-> <<>>, r |-> rem]
    ELSE put_limb((rem * LimbBase + v[k]) \div 10,
                  DivTen(v, k - 1, (rem * LimbBase + v[k]) % 10))

DigitChar(n) == SubSeq("0123456789", n + 1, n + 1)

\* The decimal digits of the limbs v, none for zero; d is v divided by ten.
RECURSIVE digits_of(_)
digits_step(d) == digits_of(d.q) \o DigitChar(d.r)

digits_of(v) == IF IsZero(v) THEN "" ELSE digits_step(DivTen(v, Len(v), 0))

\* Display of an unsigned integer, as serde_json writes it.
to_string(v) == IF IsZero(v) THEN "0" ELSE digits_of(v)

\* A Snapshot value; the fields not drawn are those of the source example.
Snap(dir, last, close, tn) ==
    [pid |-> "8", last_dir |-> dir, last_numeric |-> "18951.2", last |-> last,
     bid |-> "1.0", ask |-> "2.0", high |-> "3.0", low |-> "0.5", last_close |-> close,
     pc |-> "-1.5", pcp |-> "-1.23%", pc_col |-> "redFont", turnover |-> "21.50K",
     turnover_numeric |-> tn, time |-> "19:21:50", timestamp |-> <<38862, 24518, 0, 0>>]

LastTexts == {"18,951.2", "", "1}5"}

U32Samples == {<<0, 0>>, <<21503, 0>>, <<65535, 65535>>}

Snapshots ==
    {Snap(dir, last, close, tn) :
        dir \in {<<>>, <<"redBg">>}, last \in LastTexts, close \in {"", "19,188.0"},
        tn \in U32Samples}

\* The object of a Snapshot, every field in the order of the struct, with
\* q the text that stands for a quote.
Serialize(q, s) ==
    "{" \o StrMember(q, "pid", s.pid)
        \o (IF s.last_dir = <<>> THEN RawMember(q, "last_dir", "null")
            ELSE StrMember(q, "last_dir", s.last_dir[1]))
        \o RawMember(q, "last_numeric", s.last_numeric) \o StrMember(q, "last", s.last)
        \o StrMember(q, "bid", s.bid) \o StrMember(q, "ask", s.ask)
        \o StrMember(q, "high", s.high) \o StrMember(q, "low", s.low)
        \o StrMember(q, "last_close", s.last_close) \o StrMember(q, "pc", s.pc)
        \o StrMember(q, "pcp", s.pcp) \o StrMember(q, "pc_col", s.pc_col)
        \o StrMember(q, "turnover", s.turnover)
        \o RawMember(q, "turnover_numeric", to_string(s.turnover_numeric))
        \o StrMember(q, "time", s.time)
        \o q \o "timestamp" \o q \o ":" \o to_string(s.timestamp) \o "}"

\* What precedes "pid-" in the raw text: as in the source example, or with
\* a closing brace in it.
Leads == {"a[\"{\\\"message\\\":\\\"", "a[\"{\\\"seq\\\":{},\\\"message\\\":\\\""}

\* What separates the key from the object: the "::" of the delimiter "::{",
\* or a single colon (the delimiter is absent).
Separators == {"::", ":"}

\* A raw text: lead, key, separator and the object, whole with the end of
\* the envelope or cut before the object's closing brace.
RawText(c) ==
    c.lead \o "pid-" \o c.snap.pid \o c.sep
        \o (IF c.whole THEN Serialize(Esc, c.snap) \o "\\\"}\"]"
            ELSE SubSeq(Serialize(Esc, c.snap), 1, Len(Serialize(Esc, c.snap)) - 1))

EnvelopeCases == [snap : Snapshots, lead : Leads, sep : Separators, whole : BOOLEAN]

EnvelopeInit ==
    /\ SessionInit
    /\ pair_id = "8"
    /\ dec_mode = "wire"
    /\ dec_case \in EnvelopeCases
    /\ dec_in = RawText(dec_case)
    /\ dec_out = <<>>

SpecEnvelope == EnvelopeInit /\ [][RunWire]_vars

----------------------------------------------------------------------------
(* push.rs: generate_stream_url, run on draws of its three random values   *)
(* (the u32 as two limbs).                                                 *)

HexChar(n) == SubSeq("0123456789abcdef", n + 1, n + 1)

\* The hexadecimal digits of n, none for zero.
RECURSIVE hex_of(_)
hex_of(n) == IF n = 0 THEN "" ELSE hex_of(n \div 16) \o HexChar(n % 16)

\* The text s filled with zeros on the left up to the width w ({:0w}).
pad_zero(s, w) == IF Len(s) >= w THEN s ELSE SubSeq("00000000", 1, w - Len(s)) \o s

\* LowerHex of a u16 and of a u32.
LowerHex(n) == IF n = 0 THEN "0" ELSE hex_of(n)

LowerHexU32(v) == IF v[2] = 0 THEN LowerHex(v[1]) ELSE hex_of(v[2]) \o pad_zero(hex_of(v[1]), 4)

\* The second path segment is written without its zero fill.
generate_stream_url_unpadded(a, b, c) ==
    "wss://stream2" \o pad_zero(to_string(<<a % 100>>), 2) \o ".forexpros.com/echo/"
        \o pad_zero(LowerHex(b % 4095), 3) \o "/" \o LowerHexU32(c) \o "/websocket"

\* format!("wss://stream2{:02}.forexpros.com/echo/{:03x}/{:08x}/websocket",
\*         rnd.gen::<u8>() % 100, rnd.gen::<u16>() % 0xfff, rnd.gen::<u32>())
generate_stream_url(a, b, c) ==
    "wss://stream2" \o pad_zero(to_string(<<a % 100>>), 2) \o ".forexpros.com/echo/"
        \o pad_zero(LowerHex(b % 4095), 3) \o "/" \o pad_zero(LowerHexU32(c), 8) \o "/websocket"

U8Draws == {0, 9, 10, 99, 100, 199, 255}

U16Draws == {0, 15, 16, 255, 256, 4094, 4095, 4096, 65535}

U32Draws == {<<0, 0>>, <<1, 0>>, <<4096, 0>>, <<65535, 0>>, <<0, 1>>, <<0, 4096>>, <<65535, 65535>>}

UrlInit ==
    /\ SessionInit
    /\ pair_id = "8"
    /\ dec_mode = "url"
    /\ dec_case \in [host : U8Draws, seg1 : U16Draws, seg2 : U32Draws]
    /\ dec_in = ""
    /\ dec_out = <<>>

\* let url = generate_stream_url()
RunUrl ==
    /\ dec_mode = "url"
    /\ dec_out = <<>>
    /\ dec_out' = <<generate_stream_url(dec_case.host, dec_case.seg1, dec_case.seg2)>>
    /\ UNCHANGED <<dec_mode, dec_case, dec_in>>
    /\ UNCHANGED <<session_vars, pair_vars>>

SpecUrl == UrlInit /\ [][RunUrl]_vars

----------------------------------------------------------------------------
(* The properties.                                                         *)

\* The reason of the specification's Closed(reason) that the outcome of the
\* session task stands for.
Reason ==
    IF result.kind = "Ok" THEN "EndOfStream"
    ELSE IF result.kind = "Err" THEN "HandshakeFailed"
    ELSE IF result.kind = "Cancelled" THEN "Cancelled"
    ELSE IF result.kind = "Panic" /\ result.at # "stream" THEN "HandshakeFailed"
    ELSE IF result.kind = "Panic" /\ result.msg = "msg.unwrap" THEN "TransportError"
    ELSE IF result.kind = "Panic" /\ result.msg = "to_text" THEN "NotText"
    ELSE IF result.kind = "Panic" THEN "DecodeError"
    ELSE "None"

\* The item carries the subscription key of the session; it decodes.
HasKey(item) == item.kind = "Text" /\ contains(item.text, KeyOf(pair_id))

Decodes(item) == item.kind = "Text" /\ FromStrOf[item.text].panic = ""

\* The handler calls due for a sequence of inbound items.
RECURSIVE ExpectedCalls(_)
ExpectedCalls(items) ==
    IF items = <<>> THEN <<>>
    ELSE (IF HasKey(Head(items)) /\ Decodes(Head(items))
          THEN <<FromStrOf[Head(items).text].snap>> ELSE <<>>) \o ExpectedCalls(Tail(items))

\* C1: when the first inbound frame is not the text "o", the session is
\* closed with HandshakeFailed, nothing was sent (no subscribe, identity or
\* heartbeat frame), the heartbeat task does not exist and the handler was
\* not called.
C1_FirstFrameNotOpenAck ==
    (Len(inbound) >= 1 /\ inbound[1].kind \in {"Text", "Binary"} /\ inbound[1] # Text("o"))
        => /\ pc = "done"
           /\ Reason = "HandshakeFailed"
           /\ sent = <<>>
           /\ hb = "none"
           /\ calls = <<>>

C1_Witness == inbound = <<Text(Chatter)>> /\ pc = "done" /\ result.kind = "Err"

\* C2: the handler calls are exactly the decoded snapshots of the frames
\* received in Streaming that carry the subscription key and decode, one
\* call per frame, in the order of arrival.
C2_CallbackPerDecodedFrame == calls = ExpectedCalls(SubSeq(inbound, 2, Len(inbound)))

C2_Witness ==
    /\ Len(calls) = 2
    /\ Len(inbound) = 4
    /\ \E i \in 2..4 : Decodes(inbound[i]) /\ ~HasKey(inbound[i])

\* C3: a frame that carries the subscription key and does not decode ends
\* the session with a decode failure in its result; the handler was called
\* for the frames before it only, and no item is received after it.
C3_DecodeFailureTerminates ==
    \A i \in 2..Len(inbound) :
        (HasKey(inbound[i]) /\ ~Decodes(inbound[i]))
            => /\ i = Len(inbound)
               /\ pc = "done"
               /\ result.kind = "Panic"
               /\ Reason = "DecodeError"
               /\ calls = ExpectedCalls(SubSeq(inbound, 2, i - 1))

C3_Witness ==
    /\ Len(inbound) >= 3
    /\ inbound[Len(inbound)] = Text(BadNumberFrame(pair_id))
    /\ Len(calls) >= 1
    /\ result = Panic("stream", "ParseIntError")

\* C4: once the caller has requested cancellation, the session is closed,
\* the heartbeat task is gone (so the connection is released), and no frame
\* is sent, no item received and no handler call made any more.
C4_Cancellation ==
    [][(aborted \/ rt_dropped)
        => /\ pc = "done"
           /\ hb \notin {"ready", "sleeping"}
           /\ sent' = sent
           /\ inbound' = inbound
           /\ calls' = calls]_vars

\* C5: once the session is closed, for whatever reason, no heartbeat frame
\* is sent on its connection.
C5_NoHeartbeatAfterClosed == [][pc = "done" => sent' = sent]_vars

\* C6: the frames sent are a prefix of subscribe, identity, heartbeat,
\* heartbeat, ...; the heartbeat task exists only after both handshake
\* sends; a step that receives an inbound item sends nothing.
C6_OutboundOrder ==
    /\ [](/\ \A i \in 1..Len(sent) :
                sent[i] = (IF i = 1 THEN SubscribeFrame(pair_id)
                           ELSE IF i = 2 THEN UidFrame ELSE HeartbeatFrame)
          /\ hb # "none" => Len(sent) >= 2)
    /\ [][inbound' # inbound => sent' = sent]_vars

C6_Witness == Len(sent) = 4 /\ sent[4] = HeartbeatFrame /\ Len(inbound) >= 3

\* C7: after a heartbeat send has failed in Streaming, the session makes no
\* further handler call and does not end with a success.
C7_HeartbeatFailureFatal ==
    [][(hb = "panicked" /\ pc = "stream") => (calls' = calls /\ result'.kind # "Ok")]_vars

\* C8: after the handshake, when the inbound half ends, the session task is
\* over and awaiting its handle yields the success Ok(Ok(())), the
\* EndOfStream outcome.
C8_CleanCloseEndsOk ==
    (Len(inbound) >= 2 /\ inbound[1] = Text("o") /\ inbound[Len(inbound)] = EndOfInput)
        => /\ pc = "done"
           /\ result.kind = "Ok"
           /\ Reason = "EndOfStream"
           /\ Len(sent) >= 2

C8_Witness ==
    /\ Len(inbound) >= 3
    /\ inbound[Len(inbound)] = EndOfInput
    /\ result.kind = "Ok"
    /\ Len(calls) >= 1

\* C9: a failed read in Streaming ends the session with the read failure in
\* its result (TransportError); the handler was called for the frames
\* before it only, and no item is received after it.
C9_ReadErrorTerminates ==
    \A i \in 2..Len(inbound) :
        inbound[i] = ReadErr
            => /\ i = Len(inbound)
               /\ pc = "done"
               /\ result.kind = "Panic"
               /\ Reason = "TransportError"
               /\ calls = ExpectedCalls(SubSeq(inbound, 2, i - 1))

C9_Witness ==
    /\ Len(inbound) >= 3
    /\ inbound[Len(inbound)] = ReadErr
    /\ Len(calls) >= 1
    /\ result = Panic("stream", "msg.unwrap")

\* The u32 r is the number n (four limbs).
IsNumber(r, n) == r = <<n[1], n[2]>> /\ n[3] = 0 /\ n[4] = 0

\* C10: decoding turnover_numeric: a JSON integer n yields n, a JSON string
\* of digits yields its value, the empty string and an absent key yield 0,
\* and another non-empty string makes decoding fail with the number error.
C10_TurnoverDecoding ==
    (dec_mode = "json" /\ dec_out # <<>>)
        => /\ dec_case.tn.kind \in {"int", "digits"}
                => dec_out[1].ok /\ IsNumber(dec_out[1].snap["turnover_numeric"], dec_case.tn.n)
           /\ dec_case.tn.kind \in {"empty", "absent"}
                => dec_out[1].ok /\ dec_out[1].snap["turnover_numeric"] = <<0, 0>>
           /\ dec_case.tn.kind = "nondigits"
                => ~dec_out[1].ok /\ dec_out[1].err = "ParseIntError"
\* The raw text holds the delimiter "::{"; a "}" occurs after it; the
\* position of the first such "}".
HasDelimiter(raw) == find(raw, "::{") # None

CloseAfter(raw) == \E i \in (find(raw, "::{") + 4)..Len(raw) : ch(raw, i) = "}"

CloseAfterPos(raw) == Min({i \in (find(raw, "::{") + 4)..Len(raw) : ch(raw, i) = "}"})

\* C11: for a raw text without the delimiter "::{", or without a "}" after
\* it, decode returns (an error value) and does not panic.
C11_MalformedEnvelopeIsValue ==
    (dec_out # <<>> /\ (~HasDelimiter(dec_in) \/ ~CloseAfter(dec_in)))
        => dec_out[1].panic = ""

\* C12: decoding the wire text of a Snapshot in the documented envelope
\* returns that Snapshot, every field equal.
C12_RoundTrip ==
    (dec_out # <<>> /\ dec_case.whole /\ dec_case.sep = "::"
        /\ dec_case.lead = "a[\"{\\\"message\\\":\\\"")
        => dec_out[1] = Returned(dec_case.snap)

\* C18: the text handed to the JSON parser runs from the opening brace of
\* the first "::{" through the first "}" after it, whatever precedes the
\* delimiter: the result is that of parsing this slice.
C18_SliceToFirstCloseAfter ==
    (dec_out # <<>> /\ HasDelimiter(dec_in) /\ CloseAfter(dec_in))
        => dec_out[1] = unwrap(json_from_str(
                replace(SubSeq(dec_in, find(dec_in, "::{") + 3, CloseAfterPos(dec_in)),
                        "\\\\\\", "")))

HexDigits == Digits \cup {"a", "b", "c", "d", "e", "f"}

\* wss://stream2<DD>.<host>/echo/<XXX>/<XXXXXXXX>/websocket
UrlShape(u) ==
    /\ Len(u) = 57
    /\ SubSeq(u, 1, 13) = "wss://stream2"
    /\ \A i \in 14..15 : ch(u, i) \in Digits
    /\ SubSeq(u, 16, 35) = ".forexpros.com/echo/"
    /\ \A i \in 36..38 : ch(u, i) \in HexDigits
    /\ ch(u, 39) = "/"
    /\ \A i \in 40..47 : ch(u, i) \in HexDigits
    /\ SubSeq(u, 48, 57) = "/websocket"

\* C13: every generated endpoint has the shape
\* wss://stream2<DD>.<host>/echo/<XXX>/<XXXXXXXX>/websocket, DD two decimal
\* digits (0 to 99), then exactly 3 and exactly 8 hexadecimal characters.
C13_EndpointShape == (dec_mode = "url" /\ dec_out # <<>>) => UrlShape(dec_out[1])

C13_Witness ==
    /\ dec_case = [host |-> 255, seg1 |-> 4095, seg2 |-> <<1, 0>>]
    /\ dec_out = <<"wss://stream255.forexpros.com/echo/000/00000001/websocket">>

C16_FailureBeforeStreaming ==
    /\ [][(\/ /\ pc \in {"connect", "subscribe", "uid"}
              /\ pc' \notin {pc, "open"}
              /\ sent' = sent
              /\ aborted' = aborted
              /\ rt_dropped' = rt_dropped
           \/ /\ pc = "open"
              /\ inbound' # inbound
              /\ inbound'[Len(inbound')].kind = "End")
           => (pc' = "done" /\ Reason' = "HandshakeFailed" /\ hb' = "none" /\ calls' = <<>>)]_vars
    /\ []((pc = "done" /\ result.kind \in {"Panic", "Err"} /\ result.at # "stream")
            => (hb = "none" /\ calls = <<>>))

C16_Witness ==
    /\ pc = "done"
    /\ result = Panic("uid", "Expect tx.send(UID=0) to server")
    /\ Len(sent) = 1
    /\ hb = "none"

\* Connecting, Handshaking, Streaming, Closed in their order.
Rank(p) ==
    IF p = "connect" THEN 0
    ELSE IF p \in {"open", "subscribe", "uid"} THEN 1
    ELSE IF p = "stream" THEN 2
    ELSE 3

\* C17: the lifecycle only moves forward; once Closed the session stays
\* Closed with the one reason it reported, and no frame is sent, no item
\* received and no handler call made.
C17_LifecycleForward ==
    [][/\ Rank(pc') >= Rank(pc)
       /\ pc = "done" => /\ pc' = "done"
                         /\ result' = result
                         /\ sent' = sent
                         /\ inbound' = inbound
                         /\ calls' = calls]_vars

\* C19: while the session is in Streaming and the heartbeat task runs (no
\* send has failed, nothing was cancelled), another heartbeat frame is
\* eventually sent, whether or not inbound items arrive.
C19_HeartbeatKeepsGoing ==
    \A n \in 2..(1 + MaxHeartbeats) :
        (pc = "stream" /\ hb \in {"ready", "sleeping"} /\ Len(sent) = n)
            ~> (Len(sent) > n \/ pc # "stream" \/ hb \in {"panicked", "dropped"})

C19_Witness ==
    /\ pc = "stream"
    /\ Len(inbound) = 1
    /\ Len(sent) = 2 + MaxHeartbeats
    /\ sent[Len(sent)] = HeartbeatFrame
    /\ hb = "sleeping"

\* C20: for a non-negative JSON integer n given as turnover_numeric, a
\* decode that succeeds yields n, and an n that does not fit a u32 makes
\* the decode fail.
C20_IntegerExactOrFail ==
    (dec_mode = "json" /\ dec_out # <<>> /\ dec_case.tn.kind = "int")
        => /\ dec_out[1].ok
                => IsNumber(dec_out[1].snap["turnover_numeric"], dec_case.tn.n)
           /\ (dec_case.tn.n[3] # 0 \/ dec_case.tn.n[4] # 0) => ~dec_out[1].ok

\* What Stream s shows: the frames written to its connection, what its
\* connection yielded, the Snapshots its handler got, its tasks and what
\* awaiting its handle yields.
ViewOf(ss, w, s) ==
    [pc |-> ss[s].pc, result |-> ss[s].result, hb |-> ss[s].hb, calls |-> ss[s].calls,
     sent |-> IF ss[s].conn = 0 THEN <<>> ELSE w[ss[s].conn].sent,
     inbound |-> IF ss[s].conn = 0 THEN <<>> ELSE w[ss[s].conn].inbound]

\* The frames Stream s has written are its own: its subscribe frame, the
\* UID frame, its heartbeats.
OwnFrames(ss, w, s) ==
    \A i \in 1..Len(ViewOf(ss, w, s).sent) :
        ViewOf(ss, w, s).sent[i] =
            (IF i = 1 THEN SubscribeFrame(PairIdOf[s]) ELSE IF i = 2 THEN UidFrame
             ELSE HeartbeatFrame)

\* C14: two Streams for different instruments share no connection and no
\* state: every step (a frame sent or received, a failure, an abort, a
\* drop) changes what at most one of them shows, the two never hold the
\* same connection, and each one's connection carries its own frames only.
C14_SessionsIndependent ==
    [][/\ (ViewOf(streams', wire', 1) = ViewOf(streams, wire, 1)
            \/ ViewOf(streams', wire', 2) = ViewOf(streams, wire, 2))
       /\ (streams'[1].conn # 0 /\ streams'[2].conn # 0) => streams'[1].conn # streams'[2].conn
       /\ \A s \in Sessions : OwnFrames(streams', wire', s)]_vars

\* Both Streams streamed; one ended in a panic on a frame it could not
\* decode while the other got its Snapshot and goes on.
C14_Witness ==
    /\ streams[1].result.kind = "Panic" /\ streams[1].result.at = "stream"
    /\ streams[2].pc = "stream" /\ Len(streams[2].calls) = 1
    /\ streams[2].hb = "sleeping"
    /\ Len(wire[streams[2].conn].sent) = 3

====
